---- MODULE Spec2Model ----
(***************************************************************************)
(* Model of the Fiber EVM dApp template's client runtime:                  *)
(*   - FiberUtils' FIFO write-transaction queue (fiberUtils.ts),           *)
(*   - the reconnecting WebSocket transport with request/response          *)
(*     correlation (fiberChain.ts, createFiberWebSocketTransport),         *)
(*   - the shared preconfs socket and its listeners (fiberUtils.ts),       *)
(*   - the method mapping of both transports and decodeSolidityError.      *)
(* JavaScript runs handlers to completion: one action is one task (a call  *)
(* from the application, a socket event, a timer callback) or one promise  *)
(* continuation.                                                           *)
(***************************************************************************)
EXTENDS Integers, Sequences, FiniteSets, TLC

\* ---------------------------------------------------------------- bounds
MaxTx == 4            \* writeContract submissions explored
MaxRequests == 2      \* transport request() calls explored
MaxSockets == 3       \* WebSocket objects the transport may construct
MaxFeedSockets == 3   \* WebSocket objects the preconfs feed may construct
MaxListeners == 2     \* distinct preconfs callbacks
MaxLogs == 2          \* logs carried by one push message
MaxReceived == 2      \* event records one listener is followed through

\* ------------------------------------------------------ program constants
maxReconnectAttempts == 5
reconnectDelay == 1000
NormalClosure == 1000     \* close code passed by close(), tested by onclose
\* Close codes of a failed or lost connection (any code but NormalClosure).
AbnormalCodes == {1006}

VARIABLES
  \* FiberUtils: transaction queue
  transactionQueue,     \* Seq of queue entries (entry = submission number)
  isProcessingQueue,    \* BOOLEAN
  executing,            \* entries whose executeTransaction call is in flight,
                        \* one per suspended processTransactionQueue frame
  txOutcome,            \* entry -> "none" | "queued" | "executing" |
                        \*          "resolved" | "rejected" | "cancelled"
  executionOrder,       \* entries in the order executeTransaction was called
  submitted,            \* number of writeContract calls made so far
  haltedFrames,         \* history: the calls in flight whose drain frame was
                        \* already running when cleanup() was last called
  \* FiberUtils: shared preconfs socket
  preconfsWebSocket,    \* 0 (null) or the feed socket referred to
  preconfsReadyState,   \* feed socket -> ready state
  preconfsConnected,    \* BOOLEAN
  preconfsCallbacks,    \* set of listeners
  subscribeSent,        \* feed socket -> number of fiber_subscribePreconfs
                        \* messages sent on it (0 again once it is closed)
  received,             \* listener -> number of event records its callback
                        \* was called with since it was registered
  callbackErrors,       \* BOOLEAN: "Error in preconfs callback" was reported
  feedLost,             \* history: a feed socket's close event was handled
                        \* with listeners registered, listeners have been
                        \* registered ever since and subscribeToPreconfs has
                        \* not been called since
  \* WebSocket transport
  ws,                   \* 0 (null) or the socket the transport refers to
  readyState,           \* socket -> "NONE" | "CONNECTING" | "OPEN" |
                        \*           "CLOSING" | "CLOSED"
  wasOpen,              \* socket -> BOOLEAN: the connection is established
                        \* (cleared again by the close event)
  creator,              \* socket -> request whose connect() promise the
                        \* socket's onopen / onerror settle (0: none left)
  requestId,            \* next request id
  reconnectAttempts,
  pendingRequests,      \* set of [id, req]: the Map id -> handlers of req
  reconnectTimers,      \* Seq of delays (ms) of scheduled reconnect timers
  closedByCaller,       \* history: close() was called and request() has not
                        \* been called since
  unbudgeted,           \* history: the sockets request() constructed while
                        \* reconnectAttempts was maxReconnectAttempts, until
                        \* their open or close event
  req,                  \* request call -> its record (see IdleReq)
  \* Stateless helpers: the last call of each and what it produced
  httpSent,             \* HTTP transport: the request and the POST body
  wsSent,               \* WebSocket transport: the request and the message
  decoded,              \* decodeSolidityError: the payload and the result
  queuedParams,         \* writeContract: the gas price argument and the
                        \* params.gasPrice of the entry it pushed
  writeResult           \* executeTransaction: the prices it saw and the
                        \* result it returned

qvars == <<transactionQueue, isProcessingQueue, executing, txOutcome,
           executionOrder, submitted, haltedFrames>>
fvars == <<preconfsWebSocket, preconfsReadyState, preconfsConnected,
           preconfsCallbacks, subscribeSent, received, callbackErrors,
           feedLost>>
tvars == <<ws, readyState, wasOpen, creator, requestId, reconnectAttempts,
           pendingRequests, reconnectTimers, closedByCaller, unbudgeted,
           req>>
hvars == <<httpSent, wsSent, decoded, queuedParams, writeResult>>
vars == <<qvars, fvars, tvars, hvars>>

Tx == 1..MaxTx
Requests == 1..MaxRequests
Sockets == 1..MaxSockets
FeedSockets == 1..MaxFeedSockets
Listeners == 1..MaxListeners

\* Settling an already settled promise has no effect.
Settle(cur, new) == IF cur \in {"none", "queued", "executing", "pending"}
                    THEN new ELSE cur

\* ================================================================
\* FiberUtils: transaction queue
\* ================================================================

\* Array.prototype.shift: the head of the queue and the remaining queue.
\* Faulty variant: the head is read and left in the queue.
ShiftKeepingHead(q) == [item |-> Head(q), rest |-> q]

\* Faulty variant: Array.prototype.pop.
ShiftFromBack(q) == [item |-> q[Len(q)], rest |-> SubSeq(q, 1, Len(q) - 1)]

Shift(q) == [item |-> Head(q), rest |-> Tail(q)]

\* Faulty variant: the flag is not cleared when the loop ends.
DrainIterationKeepingFlag(q, running, outcome, flag) ==
  IF Len(q) > 0
  THEN LET s == Shift(q) IN
       /\ transactionQueue' = s.rest
       /\ executing' = running \cup {s.item}
       /\ executionOrder' = Append(executionOrder, s.item)
       /\ txOutcome' = [outcome EXCEPT ![s.item] = "executing"]
       /\ isProcessingQueue' = flag
  ELSE /\ transactionQueue' = q
       /\ executing' = running
       /\ executionOrder' = executionOrder
       /\ txOutcome' = outcome
       /\ isProcessingQueue' = flag

\* One evaluation of the loop test of processTransactionQueue followed by
\* the loop body up to its await: pop the head and call executeTransaction,
\* or leave the loop and clear the flag.  `running' are the calls of the
\* other suspended frames; `flag' is isProcessingQueue as the loop finds it
\* (the loop body does not write it).
DrainIteration(q, running, outcome, flag) ==
  IF Len(q) > 0
  THEN LET s == Shift(q) IN
       /\ transactionQueue' = s.rest
       /\ executing' = running \cup {s.item}
       /\ executionOrder' = Append(executionOrder, s.item)
       /\ txOutcome' = [outcome EXCEPT ![s.item] = "executing"]
       /\ isProcessingQueue' = flag
  ELSE /\ transactionQueue' = q
       /\ executing' = running
       /\ executionOrder' = executionOrder
       /\ txOutcome' = outcome
       /\ isProcessingQueue' = FALSE

\* processTransactionQueue(), from its call to its first suspension.
processTransactionQueue(q, outcome) ==
  IF isProcessingQueue \/ Len(q) = 0
  THEN /\ transactionQueue' = q
       /\ txOutcome' = outcome
       /\ UNCHANGED <<isProcessingQueue, executing, executionOrder>>
  ELSE DrainIteration(q, executing, outcome, TRUE)

\* writeContract(params): push the entry, then start the drain.
writeContract ==
  /\ submitted < MaxTx
  /\ LET e == submitted + 1 IN
     /\ submitted' = e
     /\ processTransactionQueue(Append(transactionQueue, e),
                                [txOutcome EXCEPT ![e] = "queued"])
  /\ UNCHANGED <<haltedFrames, fvars, tvars, hvars>>

\* Faulty variant: the try / catch is around the loop, so a failed call
\* ends the frame and leaves the rest of the queue where it is.
executeTransactionDoneAborting(e, ok) ==
  /\ e \in executing
  /\ IF ok
     THEN DrainIteration(transactionQueue, executing \ {e},
            [txOutcome EXCEPT ![e] = Settle(@, "resolved")],
            isProcessingQueue)
     ELSE /\ executing' = executing \ {e}
          /\ txOutcome' = [txOutcome EXCEPT ![e] = Settle(@, "rejected")]
          /\ UNCHANGED <<transactionQueue, executionOrder,
                         isProcessingQueue>>
  /\ haltedFrames' = haltedFrames \ {e}
  /\ UNCHANGED <<submitted, fvars, tvars, hvars>>

\* The awaited executeTransaction(e) call completes; the suspended frame
\* settles the entry's promise and goes round the loop.
executeTransactionDone(e, ok) ==
  /\ e \in executing
  /\ DrainIteration(transactionQueue, executing \ {e},
       [txOutcome EXCEPT
          ![e] = Settle(@, IF ok THEN "resolved" ELSE "rejected")],
       isProcessingQueue)
  /\ haltedFrames' = IF e \in haltedFrames
                     THEN (haltedFrames \ {e}) \cup (executing' \ executing)
                     ELSE haltedFrames
  /\ UNCHANGED <<submitted, fvars, tvars, hvars>>

\* ================================================================
\* WebSocket transport (createFiberWebSocketTransport)
\* ================================================================

IdleReq == [pc |-> "idle", sock |-> 0, id |-> 0, outcome |-> "none",
            timeout |-> "none", sentOn |-> 0, joined |-> 0]

\* Map.prototype.set / delete / has on pendingRequests.
MapSet(P, id, c) == {e \in P : e.id # id} \cup {[id |-> id, req |-> c]}
MapHas(P, id) == \E e \in P : e.id = id
\* Faulty variant: the oldest entry, whatever the id.
MapGetOldest(P, id) == CHOOSE e \in P : \A x \in P : e.id <= x.id

MapGet(P, id) == CHOOSE e \in P : e.id = id

\* Faulty variant: the entry is left in the map.
MapDeleteNothing(P, id) == P

MapDelete(P, id) == {e \in P : e.id # id}

\* Faulty variant: the counter is not advanced.
RequestIdReused(id) == id

\* requestId++: the value the counter holds after handing out id.
NextRequestId(id) == id + 1

\* clearTimeout(timeout) as called by the wrapped resolve / reject of a
\* pending entry; the raw handlers of an entry whose executor threw before
\* the timer was made clear nothing.
ClearTimeout(r) == IF r.timeout = "armed" THEN [r EXCEPT !.timeout = "none"]
                   ELSE r

\* The promise of request record r is settled with `outcome' (no effect when
\* it is settled already); the sockets a settled call waited on or sent on
\* are no longer recorded.
SettleReq(r, outcome) ==
  [r EXCEPT !.outcome = Settle(@, outcome), !.sock = 0, !.joined = 0,
            !.sentOn = 0,
            !.pc = IF @ \in {"connecting", "polling"} THEN "done" ELSE @]

\* Faulty variant: the handlers are never called.
RejectNone(R, P, reason) == R

\* Every pending entry's reject(reason) is called and the entry deleted.
RejectAll(R, P, reason) ==
  [c \in Requests |->
     IF \E e \in P : e.req = c
     THEN SettleReq(ClearTimeout(R[c]), reason)
     ELSE R[c]]

\* A promise continuation (microtask) of request() is queued: only
\* synchronous application calls can run before it, no event or timer.
MicrotaskPending == \E c \in Requests : req[c].pc = "ready"

\* Socket ids are handed out in construction order.
NextSocket == Cardinality({s \in Sockets : readyState[s] # "NONE"}) + 1

\* new WebSocket(url) in connect(), on behalf of request c (0: a timer).
NewSocket(c) ==
  /\ NextSocket \in Sockets
  /\ ws' = NextSocket
  /\ readyState' = [readyState EXCEPT ![NextSocket] = "CONNECTING"]
  /\ creator' = [creator EXCEPT ![NextSocket] = c]

\* The body of `new Promise(...)' in request(), run with the socket connect()
\* resolved to (0: null) and the ready states rs of that moment.
SendOn(c, socket, rs, R, P) ==
  LET id == requestId
      isOpen == socket # 0 /\ rs[socket] = "OPEN"
  IN
  /\ requestId' = NextRequestId(id)
  /\ pendingRequests' = MapSet(P, id, c)
  /\ req' = [R EXCEPT ![c] =
        IF socket = 0
        THEN SettleReq([@ EXCEPT !.pc = "sent", !.id = id], "typeError")
        ELSE IF isOpen
        THEN [@ EXCEPT !.pc = "sent", !.id = id, !.sock = 0,
                       !.timeout = "armed", !.sentOn = socket]
        ELSE SettleReq([@ EXCEPT !.pc = "sent", !.id = id,
                                 !.timeout = "armed"], "notOpen")]

\* request({method, params}): the call itself, up to `await connect()'.
\* connect() resolves at once on an open socket, polls on a connecting one,
\* and constructs a socket otherwise.
request(c) ==
  /\ req[c].pc = "idle"
  /\ \A d \in Requests : d < c => req[d].pc # "idle"
  /\ IF ws # 0 /\ readyState[ws] = "OPEN"
     THEN /\ req' = [req EXCEPT ![c] = [@ EXCEPT !.pc = "ready", !.sock = ws,
                                                 !.joined = ws,
                                                 !.outcome = "pending"]]
          /\ UNCHANGED <<ws, readyState, creator>>
     ELSE IF ws # 0 /\ readyState[ws] = "CONNECTING"
     THEN /\ req' = [req EXCEPT ![c] = [@ EXCEPT !.pc = "polling",
                                                 !.joined = ws,
                                                 !.outcome = "pending"]]
          /\ UNCHANGED <<ws, readyState, creator>>
     ELSE /\ NewSocket(c)
          /\ req' = [req EXCEPT ![c] = [@ EXCEPT !.pc = "connecting",
                                                 !.sock = NextSocket,
                                                 !.joined = NextSocket,
                                                 !.outcome = "pending"]]
  /\ closedByCaller' = FALSE
  /\ unbudgeted' = IF ws' # ws /\ reconnectAttempts = maxReconnectAttempts
                   THEN unbudgeted \cup {ws'} ELSE unbudgeted
  /\ UNCHANGED <<wasOpen, requestId, reconnectAttempts, pendingRequests,
                 reconnectTimers, qvars, fvars, hvars>>

\* The continuation of `await connect()' after connect() resolved inside
\* the request() call: continuations run in the order they were queued.
requestSend(c) ==
  /\ req[c].pc = "ready"
  /\ \A d \in Requests : d < c => req[d].pc # "ready"
  /\ SendOn(c, req[c].sock, readyState, req, pendingRequests)
  /\ UNCHANGED <<ws, readyState, wasOpen, creator, reconnectAttempts,
                 reconnectTimers, closedByCaller, unbudgeted, qvars, fvars,
                 hvars>>

\* ws.onopen of socket s, followed by the continuation of the request whose
\* connect() constructed s: the promise resolves to the transport's current
\* `ws', whatever socket fired the event.
ws_onopen(s) ==
  /\ ~MicrotaskPending
  /\ readyState[s] = "CONNECTING"
  /\ LET rs == [readyState EXCEPT ![s] = "OPEN"]
         c == creator[s]
     IN
     /\ readyState' = rs
     /\ wasOpen' = [wasOpen EXCEPT ![s] = TRUE]
     /\ creator' = [creator EXCEPT ![s] = 0]
     /\ reconnectAttempts' = 0
     /\ IF c # 0 /\ req[c].pc = "connecting" /\ req[c].sock = s
        THEN SendOn(c, ws, rs, req, pendingRequests)
        ELSE UNCHANGED <<req, pendingRequests, requestId>>
  /\ unbudgeted' = unbudgeted \ {s}
  /\ UNCHANGED <<ws, reconnectTimers, closedByCaller, qvars, fvars, hvars>>

\* The server starts the closing handshake: the socket reads CLOSING until
\* its close event.
ws_closing(s) ==
  /\ ~MicrotaskPending
  /\ readyState[s] = "OPEN"
  /\ readyState' = [readyState EXCEPT ![s] = "CLOSING"]
  /\ UNCHANGED <<ws, wasOpen, creator, requestId, reconnectAttempts,
                 pendingRequests, reconnectTimers, closedByCaller,
                 unbudgeted, req, qvars, fvars, hvars>>

\* Inbound frames: a response {id, result | error}, a push notification
\* (no id, a method), text that is not JSON.
Messages ==
  [kind : {"response"}, id : 1..MaxRequests, error : BOOLEAN]
  \cup {[kind |-> "notification", id |-> 0, error |-> FALSE],
        [kind |-> "invalid", id |-> 0, error |-> FALSE]}

\* Faulty variant: a message that is not the response to a pending request
\* is taken for a protocol failure and every pending request is rejected.
ws_onmessageStrict(s, m) ==
  /\ ~MicrotaskPending
  /\ readyState[s] = "OPEN"
  /\ IF m.kind = "response" /\ MapHas(pendingRequests, m.id)
     THEN LET e == MapGet(pendingRequests, m.id) IN
          /\ pendingRequests' = MapDelete(pendingRequests, m.id)
          /\ req' = [req EXCEPT ![e.req] =
                SettleReq(ClearTimeout(@), IF m.error THEN "rpcError"
                                           ELSE "resolved")]
     ELSE /\ req' = RejectAll(req, pendingRequests, "connectionClosed")
          /\ pendingRequests' = {}
  /\ UNCHANGED <<ws, readyState, wasOpen, creator, requestId,
                 reconnectAttempts, reconnectTimers, closedByCaller,
                 unbudgeted, qvars, fvars, hvars>>

\* ws.onmessage of socket s with message m.
ws_onmessage(s, m) ==
  /\ ~MicrotaskPending
  /\ readyState[s] = "OPEN"
  /\ IF m.kind = "response" /\ MapHas(pendingRequests, m.id)
     THEN LET e == MapGet(pendingRequests, m.id) IN
          /\ pendingRequests' = MapDelete(pendingRequests, m.id)
          /\ req' = [req EXCEPT ![e.req] =
                SettleReq(ClearTimeout(@), IF m.error THEN "rpcError"
                                           ELSE "resolved")]
     ELSE UNCHANGED <<pendingRequests, req>>
  /\ UNCHANGED <<ws, readyState, wasOpen, creator, requestId,
                 reconnectAttempts, reconnectTimers, closedByCaller,
                 unbudgeted, qvars, fvars, hvars>>

\* Close codes the close event of socket s can carry: a connection that was
\* never established fails, and reports an abnormal code.
CloseCodes(s) == IF wasOpen[s] THEN {NormalClosure} \cup AbnormalCodes
                 ELSE AbnormalCodes

\* setTimeout: the scheduled reconnect timers, kept as a bag of delays
\* (a sequence in ascending order; timers are told apart by delay only).
AddTimer(T, delay) ==
  LET k == Cardinality({i \in 1..Len(T) : T[i] <= delay})
  IN SubSeq(T, 1, k) \o <<delay>> \o SubSeq(T, k + 1, Len(T))

\* The retry test of ws.onclose.
ShouldReconnect(code) ==
  code # NormalClosure /\ reconnectAttempts < maxReconnectAttempts

\* Faulty variant: no linear back-off.
ReconnectDelayFixed(attempts) == reconnectDelay

\* The delay of the reconnect timer, computed after reconnectAttempts++.
ReconnectDelayFor(attempts) == reconnectDelay * attempts

\* The close event of socket s (after its error event when the connection
\* failed before opening): ws.onerror rejects the connect() promise of the
\* request that constructed s, ws.onclose clears `ws', rejects and drops
\* every pending request and may schedule a reconnect.
ws_onclose(s, code) ==
  /\ ~MicrotaskPending
  /\ readyState[s] \in {"CONNECTING", "OPEN", "CLOSING"}
  /\ code \in CloseCodes(s)
  /\ LET c == creator[s]
         R1 == IF ~wasOpen[s] /\ c # 0 /\ req[c].pc = "connecting"
                  /\ req[c].sock = s
               THEN [req EXCEPT ![c] = SettleReq(@, "connectFailed")]
               ELSE req
     IN
     /\ readyState' = [readyState EXCEPT ![s] = "CLOSED"]
     /\ wasOpen' = [wasOpen EXCEPT ![s] = FALSE]
     /\ creator' = [creator EXCEPT ![s] = 0]
     /\ ws' = 0
     /\ req' = RejectAll(R1, pendingRequests, "connectionClosed")
     /\ pendingRequests' = {}
     /\ IF ShouldReconnect(code)
        THEN /\ reconnectAttempts' = reconnectAttempts + 1
             /\ reconnectTimers' =
                  AddTimer(reconnectTimers,
                           ReconnectDelayFor(reconnectAttempts + 1))
        ELSE UNCHANGED <<reconnectAttempts, reconnectTimers>>
  /\ unbudgeted' = unbudgeted \ {s}
  /\ UNCHANGED <<requestId, closedByCaller, qvars, fvars, hvars>>

RemoveAt(q, i) == SubSeq(q, 1, i - 1) \o SubSeq(q, i + 1, Len(q))

\* A reconnect timer fires: connect() with nobody awaiting its promise.
reconnectTimerFires(i) ==
  /\ ~MicrotaskPending
  /\ i \in 1..Len(reconnectTimers)
  /\ reconnectTimers' = RemoveAt(reconnectTimers, i)
  /\ IF ws # 0 /\ readyState[ws] \in {"OPEN", "CONNECTING"}
     THEN UNCHANGED <<ws, readyState, creator>>
     ELSE NewSocket(0)
  /\ UNCHANGED <<wasOpen, requestId, reconnectAttempts, pendingRequests, req,
                 closedByCaller, unbudgeted, qvars, fvars, hvars>>

\* close() of the transport, as a step on the transport's variables.
TransportClose ==
  /\ readyState' = IF ws # 0 /\ readyState[ws] \in {"OPEN", "CONNECTING"}
                   THEN [readyState EXCEPT ![ws] = "CLOSING"]
                   ELSE readyState
  /\ ws' = 0
  /\ reconnectAttempts' = maxReconnectAttempts
  /\ req' = RejectAll(req, pendingRequests, "transportClosed")
  /\ pendingRequests' = {}
  /\ closedByCaller' = TRUE
  /\ UNCHANGED <<wasOpen, creator, requestId, reconnectTimers, unbudgeted>>

close ==
  /\ TransportClose
  /\ UNCHANGED <<qvars, fvars, hvars>>

\* One run of checkConnection for a request waiting on a connection attempt
\* it did not start (re-armed every 100 ms while neither test succeeds).
checkConnection(c) ==
  /\ ~MicrotaskPending
  /\ req[c].pc = "polling"
  /\ IF ws # 0 /\ readyState[ws] = "OPEN"
     THEN SendOn(c, ws, readyState, req, pendingRequests)
     ELSE IF ws # 0 /\ readyState[ws] \in {"CLOSED", "CLOSING"}
     THEN /\ req' = [req EXCEPT ![c] = SettleReq(@, "connectFailed")]
          /\ UNCHANGED <<pendingRequests, requestId>>
     ELSE UNCHANGED <<req, pendingRequests, requestId>>
  /\ UNCHANGED <<ws, readyState, wasOpen, creator, reconnectAttempts,
                 reconnectTimers, closedByCaller, unbudgeted, qvars, fvars,
                 hvars>>

\* The 30 s timer of request c fires (time is not measured: a timer that is
\* armed may fire at any later moment).
requestTimeout(c) ==
  /\ ~MicrotaskPending
  /\ req[c].timeout = "armed"
  /\ IF MapHas(pendingRequests, req[c].id)
     THEN /\ pendingRequests' = MapDelete(pendingRequests, req[c].id)
          /\ req' = [req EXCEPT ![c] =
                       SettleReq([@ EXCEPT !.timeout = "fired"], "timeout")]
     ELSE /\ req' = [req EXCEPT ![c] = [@ EXCEPT !.timeout = "fired"]]
          /\ UNCHANGED pendingRequests
  /\ UNCHANGED <<ws, readyState, wasOpen, creator, requestId,
                 reconnectAttempts, reconnectTimers, closedByCaller,
                 unbudgeted, qvars, fvars, hvars>>

\* ================================================================
\* FiberUtils: shared preconfs socket and its listeners
\* ================================================================

\* The next WebSocket object `new WebSocket(wsUrl)' returns (0: none left).
NextFeedSocket ==
  IF \E s \in FeedSockets : preconfsReadyState[s] = "NONE"
  THEN CHOOSE s \in FeedSockets :
          /\ preconfsReadyState[s] = "NONE"
          /\ \A t \in FeedSockets : preconfsReadyState[t] = "NONE" => s <= t
  ELSE 0

\* Number of `new WebSocket(wsUrl)' calls made for the feed so far.
FeedOpenCount ==
  Cardinality({s \in FeedSockets : preconfsReadyState[s] # "NONE"})

\* WebSocket.close(): starts the closing handshake of a socket that is
\* connecting or open and does nothing otherwise.
FeedClose(rs, s) ==
  IF rs[s] \in {"CONNECTING", "OPEN"} THEN [rs EXCEPT ![s] = "CLOSING"]
  ELSE rs

\* initializePreconfsConnection(): returns early when a socket is referred
\* to and is connected, connecting or open; otherwise closes what is left
\* and constructs a new socket.
initializePreconfsConnection ==
  IF /\ preconfsWebSocket # 0
     /\ \/ preconfsConnected
        \/ preconfsReadyState[preconfsWebSocket] \in {"CONNECTING", "OPEN"}
  THEN UNCHANGED <<preconfsWebSocket, preconfsReadyState, preconfsConnected>>
  ELSE /\ NextFeedSocket # 0
       /\ preconfsWebSocket' = NextFeedSocket
       /\ preconfsReadyState' =
            [(IF preconfsWebSocket # 0
              THEN FeedClose(preconfsReadyState, preconfsWebSocket)
              ELSE preconfsReadyState)
               EXCEPT ![NextFeedSocket] = "CONNECTING"]
       /\ preconfsConnected' = FALSE

\* subscribeToPreconfs(callback) with callback = l.  Set.prototype.add of a
\* callback that is registered already leaves the set as it is.
subscribeToPreconfs(l) ==
  /\ IF \/ preconfsWebSocket = 0
        \/ preconfsReadyState[preconfsWebSocket] \notin {"CONNECTING", "OPEN"}
     THEN initializePreconfsConnection
     ELSE UNCHANGED <<preconfsWebSocket, preconfsReadyState,
                      preconfsConnected>>
  /\ preconfsCallbacks' = preconfsCallbacks \cup {l}
  /\ feedLost' = FALSE
  /\ UNCHANGED <<subscribeSent, received, callbackErrors, qvars, tvars,
                 hvars>>

\* The function subscribeToPreconfs returned for callback l is called.  (A
\* call for a callback that is no longer registered changes nothing: the
\* socket reference is null whenever the set is empty.)
unsubscribe(l) ==
  /\ l \in preconfsCallbacks
  /\ preconfsCallbacks' = preconfsCallbacks \ {l}
  /\ IF preconfsCallbacks' = {} /\ preconfsWebSocket # 0
     THEN /\ preconfsReadyState' =
               FeedClose(preconfsReadyState, preconfsWebSocket)
          /\ preconfsWebSocket' = 0
          /\ preconfsConnected' = FALSE
     ELSE UNCHANGED <<preconfsWebSocket, preconfsReadyState,
                      preconfsConnected>>
  /\ received' = [received EXCEPT ![l] = 0]
  /\ feedLost' = (feedLost /\ preconfsCallbacks' # {})
  /\ UNCHANGED <<subscribeSent, callbackErrors, qvars, tvars, hvars>>

\* onopen of feed socket s.  The handler tests and sends on the socket the
\* field refers to when the event is handled, not on s.
feed_onopen(s) ==
  /\ preconfsReadyState[s] = "CONNECTING"
  /\ preconfsReadyState' = [preconfsReadyState EXCEPT ![s] = "OPEN"]
  /\ preconfsConnected' = TRUE
  /\ subscribeSent' =
       IF /\ preconfsWebSocket # 0
          /\ preconfsReadyState'[preconfsWebSocket] = "OPEN"
       THEN [subscribeSent EXCEPT ![preconfsWebSocket] = @ + 1]
       ELSE subscribeSent
  /\ UNCHANGED <<preconfsWebSocket, preconfsCallbacks, received,
                 callbackErrors, feedLost, qvars, tvars, hvars>>

\* The connection of feed socket s starts to close without a close() call
\* (closing handshake started by the server).
feed_closing(s) ==
  /\ preconfsReadyState[s] = "OPEN"
  /\ preconfsReadyState' = [preconfsReadyState EXCEPT ![s] = "CLOSING"]
  /\ UNCHANGED <<preconfsWebSocket, preconfsConnected, preconfsCallbacks,
                 subscribeSent, received, callbackErrors, feedLost, qvars,
                 tvars, hvars>>

\* Faulty variant: onclose reconnects while listeners are registered.
feed_oncloseReconnecting(s) ==
  /\ preconfsReadyState[s] \in {"CONNECTING", "OPEN", "CLOSING"}
  /\ preconfsConnected' = FALSE
  /\ subscribeSent' = [subscribeSent EXCEPT ![s] = 0]
  /\ feedLost' = (feedLost \/ preconfsCallbacks # {})
  /\ IF preconfsCallbacks # {} /\ NextFeedSocket # 0
     THEN /\ preconfsWebSocket' = NextFeedSocket
          /\ preconfsReadyState' =
               [preconfsReadyState EXCEPT ![s] = "CLOSED",
                                          ![NextFeedSocket] = "CONNECTING"]
     ELSE /\ preconfsWebSocket' = 0
          /\ preconfsReadyState' = [preconfsReadyState EXCEPT ![s] = "CLOSED"]
  /\ UNCHANGED <<preconfsCallbacks, received, callbackErrors, qvars, tvars,
                 hvars>>

\* The close event of feed socket s (after its error event, if the
\* connection failed): both handlers write the fields of the service, not
\* of s.
feed_onclose(s) ==
  /\ preconfsReadyState[s] \in {"CONNECTING", "OPEN", "CLOSING"}
  /\ preconfsReadyState' = [preconfsReadyState EXCEPT ![s] = "CLOSED"]
  /\ preconfsConnected' = FALSE
  /\ preconfsWebSocket' = 0
  /\ subscribeSent' = [subscribeSent EXCEPT ![s] = 0]
  /\ feedLost' = (feedLost \/ preconfsCallbacks # {})
  /\ UNCHANGED <<preconfsCallbacks, received, callbackErrors, qvars, tvars,
                 hvars>>

\* Messages a feed socket may receive: a push message with `logs' logs, each
\* with address, topics and data, on which the callbacks in `throwing'
\* throw; a message without params.result.logs (the reply to the subscribe
\* request); text that is not JSON.
FeedMessages ==
  [kind : {"push"}, logs : 0..MaxLogs, throwing : SUBSET Listeners]
    \cup {[kind |-> "reply", logs |-> 0, throwing |-> {}],
          [kind |-> "invalid", logs |-> 0, throwing |-> {}]}

RECURSIVE CallCallbacksUnguarded(_, _, _), CallCallbacks(_, _, _)
\* Faulty variant: no try / catch around the call, so the exception of one
\* callback ends the forEach.
CallCallbacksUnguarded(todo, throwing, d) ==
  IF todo = {} THEN d
  ELSE LET l == CHOOSE x \in todo : \A y \in todo : x <= y
           called == [d EXCEPT !.received[l] = @ + 1]
       IN IF l \in throwing
          THEN called
          ELSE CallCallbacksUnguarded(todo \ {l}, throwing, called)

\* preconfsCallbacks.forEach(callback => try { callback(event) } catch ...):
\* every callback in `todo' is called once; an exception is reported and the
\* iteration goes on.
CallCallbacks(todo, throwing, d) ==
  IF todo = {} THEN d
  ELSE LET l == CHOOSE x \in todo : \A y \in todo : x <= y
           called == [d EXCEPT !.received[l] = @ + 1]
       IN IF l \in throwing
          THEN CallCallbacks(todo \ {l}, throwing,
                             [called EXCEPT !.errors = TRUE])
          ELSE CallCallbacks(todo \ {l}, throwing, called)

RECURSIVE DeliverLogs(_, _, _, _)
\* Faulty variant: only the first log of a message is delivered.
DeliverFirstLog(n, listeners, throwing, d) ==
  IF n = 0 THEN d ELSE CallCallbacks(listeners, throwing, d)

\* data.params.result.logs.forEach(log => ...): one event record per log,
\* handed to every registered callback.
DeliverLogs(n, listeners, throwing, d) ==
  IF n = 0 THEN d
  ELSE DeliverLogs(n - 1, listeners, throwing,
                   CallCallbacks(listeners, throwing, d))

\* onmessage of feed socket s with message m.  The server pushes logs only
\* on a socket on which it received a subscribe request.
feed_onmessage(s, m) ==
  /\ preconfsReadyState[s] = "OPEN"
  /\ m.throwing \subseteq preconfsCallbacks
  /\ m.logs = 0 => m.throwing = {}
  /\ m.kind = "push" =>
        /\ subscribeSent[s] > 0
        /\ \A l \in preconfsCallbacks : received[l] + m.logs <= MaxReceived
  /\ LET d == IF m.kind = "push"
              THEN DeliverLogs(m.logs, preconfsCallbacks, m.throwing,
                     [received |-> received, errors |-> callbackErrors])
              ELSE [received |-> received, errors |-> callbackErrors]
     IN /\ received' = d.received
        /\ callbackErrors' = d.errors
  /\ UNCHANGED <<preconfsWebSocket, preconfsReadyState, preconfsConnected,
                 preconfsCallbacks, subscribeSent, feedLost, qvars, tvars,
                 hvars>>

\* ================================================================
\* Method mapping of the two transports
\* ================================================================

\* Method names and parameter lists a client hands to a transport.
Methods == {"eth_sendRawTransaction", "fiber_sendRawTransaction",
            "eth_sendTransaction", "eth_sendRawTransactionConditional",
            "eth_call", "eth_getBalance", "eth_blockNumber"}
ParamLists ==
  {<<>>, <<"0x02f86b">>, <<"0xa1", "latest">>, <<"latest", "0xa1">>}

\* Before the first call of a transport.
NothingSent ==
  [method |-> "", params |-> <<>>,
   body |-> [jsonrpc |-> "", method |-> "", params |-> <<>>, id |-> 0]]

\* Faulty variant: every method that sends a transaction is renamed.
HttpMapEverySend(method) ==
  IF method \in {"eth_sendRawTransaction", "eth_sendTransaction"}
  THEN "fiber_sendRawTransaction" ELSE method

\* createFiberTransport: the method name put into the POST body.
HttpMapMethod(method) ==
  IF method = "eth_sendRawTransaction" THEN "fiber_sendRawTransaction"
  ELSE method

\* createFiberWebSocketTransport: mappedMethod.
WsMapMethod(method) ==
  IF method = "eth_sendRawTransaction" THEN "fiber_sendRawTransaction"
  ELSE method

\* createFiberTransport's request({method, params}) up to the fetch call:
\* the JSON-RPC envelope posted, always with id 1.
httpRequest(method, params) ==
  /\ httpSent' = [method |-> method, params |-> params,
                  body |-> [jsonrpc |-> "2.0",
                            method |-> HttpMapMethod(method),
                            params |-> params,
                            id |-> 1]]
  /\ UNCHANGED <<wsSent, decoded, queuedParams, writeResult, qvars, fvars,
                 tvars>>

\* The message createFiberWebSocketTransport's request({method, params})
\* builds for the id it took from requestId.
wsRequestMessage(method, params) ==
  /\ wsSent' = [method |-> method, params |-> params,
                body |-> [jsonrpc |-> "2.0",
                          method |-> WsMapMethod(method),
                          params |-> params,
                          id |-> requestId]]
  /\ UNCHANGED <<httpSent, decoded, queuedParams, writeResult, qvars, fvars,
                 tvars>>

\* ================================================================
\* FiberUtils.decodeSolidityError
\* ================================================================
\* A JavaScript string is the sequence of its characters; a decoded text is
\* the sequence of its byte values.

HexDigits == <<"0", "1", "2", "3", "4", "5", "6", "7",
               "8", "9", "a", "b", "c", "d", "e", "f">>
HexChar(n) == HexDigits[n + 1]
IsHexDigit(c) == \E i \in 1..Len(HexDigits) : HexDigits[i] = c
HexDigitValue(c) == (CHOOSE i \in 1..Len(HexDigits) : HexDigits[i] = c) - 1

\* The number parseInt returns when there is no digit to parse.
NaN == -1

Min(a, b) == IF a <= b THEN a ELSE b

\* String.prototype.startsWith / slice(from) / slice(from, to) for
\* non-negative positions; a NaN `to' counts as 0.
StartsWith(str, prefix) ==
  /\ Len(str) >= Len(prefix)
  /\ SubSeq(str, 1, Len(prefix)) = prefix
SliceFrom(str, from) == SubSeq(str, from + 1, Len(str))
Slice(str, from, to) ==
  SubSeq(str, from + 1, Min(IF to = NaN THEN 0 ELSE to, Len(str)))

RECURSIVE HexValue(_, _)
\* The value of a sequence of hex digits, after the digits read so far
\* gave acc.
HexValue(digits, acc) ==
  IF digits = <<>> THEN acc
  ELSE HexValue(Tail(digits), acc * 16 + HexDigitValue(Head(digits)))

\* parseInt(str, 16): the value of the longest prefix of hex digits (its
\* leading zeros add nothing), NaN when str does not start with one.
parseInt16(str) ==
  IF str = <<>> \/ ~IsHexDigit(Head(str)) THEN NaN
  ELSE LET isPrefix(k) == \A i \in 1..k : IsHexDigit(str[i])
           last == CHOOSE k \in 1..Len(str) :
                      isPrefix(k) /\ (k = Len(str) \/ ~isPrefix(k + 1))
           zeros == Cardinality({k \in 1..last :
                                   \A i \in 1..k : str[i] = "0"})
       IN HexValue(SubSeq(str, zeros + 1, last), 0)

\* The byte values of an even number of hex digits.
HexPairsToBytes(hex) ==
  [i \in 1..(Len(hex) \div 2) |->
     HexDigitValue(hex[2 * i - 1]) * 16 + HexDigitValue(hex[2 * i])]

\* viem's hexToString(`0x${hex}`): throws on a character that is no hex
\* digit, pads an odd number of digits on the left, and decodes the bytes.
hexToString(hex) ==
  IF \E i \in 1..Len(hex) : ~IsHexDigit(hex[i])
  THEN [ok |-> FALSE, text |-> <<>>]
  ELSE [ok |-> TRUE,
        text |-> HexPairsToBytes(IF Len(hex) % 2 = 1 THEN <<"0">> \o hex
                                 ELSE hex)]

\* The 32-byte word that starts at byte `at' of an ABI-encoded body.
WordAt(body, at) == parseInt16(Slice(body, 2 * at, 2 * at + 64))

\* viem's decodeErrorResult for Error(string), applied to the bytes after
\* the selector: the first word is the offset of the string, whose length
\* word is followed by its bytes; data that ends early makes it throw.
DecodeAbiString(body) ==
  IF Len(body) < 64 THEN [ok |-> FALSE, text |-> <<>>]
  ELSE LET offset == WordAt(body, 0) IN
       IF 2 * offset + 64 > Len(body) THEN [ok |-> FALSE, text |-> <<>>]
       ELSE LET length == WordAt(body, offset)
                start == 2 * offset + 64
            IN IF start + 2 * length > Len(body)
               THEN [ok |-> FALSE, text |-> <<>>]
               ELSE hexToString(Slice(body, start, start + 2 * length))

\* viem's decodeErrorResult for Panic(uint256): the first word is the code.
DecodeAbiUint(body) ==
  IF Len(body) < 64 THEN [ok |-> FALSE, code |-> 0]
  ELSE [ok |-> TRUE, code |-> WordAt(body, 0)]

Prefix0x == <<"0", "x">>
ErrorSelector == Prefix0x \o <<"0", "8", "c", "3", "7", "9", "a", "0">>
PanicSelector == Prefix0x \o <<"4", "e", "4", "8", "7", "b", "7", "1">>

\* The results: null, a message, `Panic(${code})', "Panic" and
\* `Unknown error (${selector})'.
Null == [kind |-> "null", text |-> <<>>, code |-> 0, selector |-> <<>>]
Message(text) ==
  [kind |-> "message", text |-> text, code |-> 0, selector |-> <<>>]
PanicWithCode(code) ==
  [kind |-> "Panic(code)", text |-> <<>>, code |-> code, selector |-> <<>>]
Panic == [kind |-> "Panic", text |-> <<>>, code |-> 0, selector |-> <<>>]
UnknownError(selector) ==
  [kind |-> "Unknown error", text |-> <<>>, code |-> 0,
   selector |-> selector]

\* Faulty variant: the fallback names three bytes of the selector.
SelectorOfShort(output) == Slice(output, 0, 8)

\* output.slice(0, 10)
SelectorOf(output) == Slice(output, 0, 10)

\* decodeSolidityError(output).  (decodeErrorResult decodes the one input
\* of Error(string) to a string, so the test `typeof message === "string"'
\* holds whenever the call returns.)
decodeSolidityError(output) ==
  IF output = <<>> \/ ~StartsWith(output, Prefix0x) THEN Null
  ELSE IF StartsWith(output, ErrorSelector)
  THEN LET d == DecodeAbiString(SliceFrom(output, 10)) IN
       IF d.ok THEN Message(d.text)
       ELSE LET errorData == SliceFrom(output, 10)
                lengthHex == Slice(errorData, 64, 128)
                length == parseInt16(lengthHex)
                messageHex ==
                  Slice(errorData, 128,
                        IF length = NaN THEN NaN ELSE 128 + length * 2)
                h == hexToString(messageHex)
            IN IF h.ok THEN Message(h.text) ELSE Null
  ELSE IF StartsWith(output, PanicSelector)
  THEN LET d == DecodeAbiUint(SliceFrom(output, 10)) IN
       IF d.ok THEN PanicWithCode(d.code) ELSE Panic
  ELSE UnknownError(SelectorOf(output))

\* ABI encoding of the payloads the node returns.
Zeros(n) == [i \in 1..n |-> "0"]
Word(n) == Zeros(62) \o <<HexChar(n \div 16), HexChar(n % 16)>>

\* Two hex digits for each byte.
BytesToHex(bytes) ==
  [i \in 1..(2 * Len(bytes)) |->
     IF i % 2 = 1 THEN HexChar(bytes[(i + 1) \div 2] \div 16)
     ELSE HexChar(bytes[i \div 2] % 16)]

\* Error(string) arguments: offset 32, length, the bytes padded to words.
EncodeErrorString(text) ==
  Word(32) \o Word(Len(text)) \o BytesToHex(text)
    \o Zeros((64 - ((2 * Len(text)) % 64)) % 64)

\* Revert messages ("", "no", "fail", "Not owner", 33 times "a") and the
\* panic codes of a failed assert, an overflow, a division by zero and an
\* index out of bounds.
Texts == {<<>>, <<110, 111>>, <<102, 97, 105, 108>>,
          <<78, 111, 116, 32, 111, 119, 110, 101, 114>>,
          [i \in 1..33 |-> 97]}
PanicCodes == {1, 17, 18, 50}

\* What may follow the selector: nothing, an encoded string, an encoded
\* code, or data that ends early.
Bodies ==
  {<<>>} \cup {EncodeErrorString(t) : t \in Texts}
         \cup {Word(c) : c \in PanicCodes}
         \cup {SubSeq(Word(17), 1, 32),
               SubSeq(EncodeErrorString(<<110, 111>>), 1, 128)}

\* Selectors: Error(string), Panic(uint256), transfer(address,uint256), a
\* custom error, and two bytes only.
Selectors ==
  {SliceFrom(ErrorSelector, 2), SliceFrom(PanicSelector, 2),
   <<"a", "9", "0", "5", "9", "c", "b", "b">>,
   <<"c", "a", "f", "e", "b", "a", "b", "e">>,
   <<"0", "8", "c", "3">>}

Payloads ==
  {<<>>} \cup {pre \o sel \o body :
                 pre \in {Prefix0x, <<>>}, sel \in Selectors, body \in Bodies}

\* A call decodeSolidityError(output).
decode(output) ==
  /\ decoded' = [output |-> output, result |-> decodeSolidityError(output)]
  /\ UNCHANGED <<httpSent, wsSent, queuedParams, writeResult, qvars, fvars,
                 tvars>>

\* ================================================================
\* FiberUtils: gas price and cost of a write
\* ================================================================

\* The gasPrice argument of writeContract: left out (undefined) or a bigint.
GasPrices == {0, 1, 2, 1000}
GasPriceArgs ==
  {[given |-> FALSE, value |-> 0]} \cup [given : {TRUE}, value : GasPrices]

\* What publicClient.getGasPrice() may return and the gas_used of a result.
ChainGasPrices == {3, 7}
GasUsed == {0, 21000, 600000}

\* The default of writeContract's gasPrice parameter, BigInt(1).
DefaultGasPrice == 1

NoParams == [given |-> FALSE, value |-> 0, gasPrice |-> 0, queued |-> FALSE]
NoResult == [given |-> FALSE, value |-> 0, queried |-> FALSE,
             gasPrice |-> 0, gas_used |-> 0, weiSpent |-> 0]

\* Faulty variant: `gasPrice ?? (await getGasPrice())', which keeps 0n.
EffectiveGasPriceNullish(gasPrice, chainPrice) ==
  [queried |-> FALSE, gasPrice |-> gasPrice]

\* gasPrice || (await this.publicClient.getGasPrice()): the chain is asked
\* when the price is falsy; no params.gasPrice is undefined, 0n is falsy.
EffectiveGasPrice(gasPrice, chainPrice) ==
  IF gasPrice = 0 THEN [queried |-> TRUE, gasPrice |-> chainPrice]
  ELSE [queried |-> FALSE, gasPrice |-> gasPrice]

\* writeContract({..., gasPrice}): the parameter default is applied and the
\* params are pushed with the entry.
writeContractParams(arg) ==
  /\ queuedParams' = [given |-> arg.given, value |-> arg.value,
                      gasPrice |-> IF arg.given THEN arg.value
                                   ELSE DefaultGasPrice,
                      queued |-> TRUE]
  /\ UNCHANGED <<httpSent, wsSent, decoded, writeResult, qvars, fvars,
                 tvars>>

\* executeTransaction(params) for the entry pushed last, where getGasPrice
\* would return chainPrice and the node reports gas_used.
executeTransaction(chainPrice, gas_used) ==
  /\ queuedParams.queued
  /\ LET e == EffectiveGasPrice(queuedParams.gasPrice, chainPrice) IN
     writeResult' = [given |-> queuedParams.given,
                     value |-> queuedParams.value,
                     queried |-> e.queried,
                     gasPrice |-> e.gasPrice,
                     gas_used |-> gas_used,
                     weiSpent |-> gas_used * e.gasPrice]
  /\ queuedParams' = NoParams
  /\ UNCHANGED <<httpSent, wsSent, decoded, qvars, fvars, tvars>>

\* ================================================================
\* FiberUtils.cleanup
\* ================================================================

cleanup ==
  /\ txOutcome' = [e \in Tx |->
        IF \E i \in 1..Len(transactionQueue) : transactionQueue[i] = e
        THEN Settle(txOutcome[e], "cancelled") ELSE txOutcome[e]]
  /\ transactionQueue' = <<>>
  /\ isProcessingQueue' = FALSE
  /\ preconfsReadyState' =
       IF preconfsWebSocket # 0
          /\ preconfsReadyState[preconfsWebSocket] \in {"OPEN", "CONNECTING"}
       THEN [preconfsReadyState EXCEPT ![preconfsWebSocket] = "CLOSING"]
       ELSE preconfsReadyState
  /\ preconfsWebSocket' = 0
  /\ preconfsConnected' = FALSE
  /\ preconfsCallbacks' = {}
  /\ received' = [l \in Listeners |-> 0]
  /\ feedLost' = FALSE
  /\ UNCHANGED <<subscribeSent, callbackErrors>>
  /\ TransportClose
  /\ haltedFrames' = executing
  /\ UNCHANGED <<executing, executionOrder, submitted, hvars>>

\* ================================================================
\* Specifications
\* ================================================================

Init ==
  /\ transactionQueue = <<>>
  /\ isProcessingQueue = FALSE
  /\ executing = {}
  /\ txOutcome = [e \in Tx |-> "none"]
  /\ executionOrder = <<>>
  /\ submitted = 0
  /\ haltedFrames = {}
  /\ preconfsWebSocket = 0
  /\ preconfsReadyState = [s \in FeedSockets |-> "NONE"]
  /\ preconfsConnected = FALSE
  /\ preconfsCallbacks = {}
  /\ subscribeSent = [s \in FeedSockets |-> 0]
  /\ received = [l \in Listeners |-> 0]
  /\ callbackErrors = FALSE
  /\ feedLost = FALSE
  /\ ws = 0
  /\ readyState = [s \in Sockets |-> "NONE"]
  /\ wasOpen = [s \in Sockets |-> FALSE]
  /\ creator = [s \in Sockets |-> 0]
  /\ requestId = 1
  /\ reconnectAttempts = 0
  /\ pendingRequests = {}
  /\ reconnectTimers = <<>>
  /\ closedByCaller = FALSE
  /\ unbudgeted = {}
  /\ req = [c \in Requests |-> IdleReq]
  /\ httpSent = NothingSent
  /\ wsSent = NothingSent
  /\ decoded = [output |-> <<>>, result |-> Null]
  /\ queuedParams = NoParams
  /\ writeResult = NoResult

\* The transaction queue under writeContract, completions and cleanup.
NextQueue ==
  \/ writeContract
  \/ \E e \in Tx, ok \in BOOLEAN : executeTransactionDone(e, ok)
  \/ cleanup

SpecQueue == Init /\ [][NextQueue]_vars

\* The same, where every executeTransaction call completes.
SpecQueueFair ==
  /\ SpecQueue
  /\ \A e \in Tx :
        WF_vars(\E ok \in BOOLEAN : executeTransactionDone(e, ok))

\* The transport under request, close, socket events and timers.
NextTransport ==
  \/ \E c \in Requests : request(c)
  \/ \E c \in Requests : requestSend(c)
  \/ \E s \in Sockets : ws_onopen(s)
  \/ \E s \in Sockets : ws_closing(s)
  \/ \E s \in Sockets, m \in Messages : ws_onmessage(s, m)
  \/ \E s \in Sockets, code \in {NormalClosure} \cup AbnormalCodes :
        ws_onclose(s, code)
  \/ \E i \in 1..MaxSockets : reconnectTimerFires(i)
  \/ close
  \/ \E c \in Requests : checkConnection(c)
  \/ \E c \in Requests : requestTimeout(c)

SpecTransport == Init /\ [][NextTransport]_vars

\* A socket that is connecting opens or fails, one that is closing closes.
SocketEvent(s) ==
  /\ readyState[s] \in {"CONNECTING", "CLOSING"}
  /\ ws_onopen(s) \/ \E code \in AbnormalCodes \cup {NormalClosure} :
                        ws_onclose(s, code)

\* The same, where queued continuations run, timers fire and the events of
\* sockets that are connecting or closing arrive.
SpecTransportFair ==
  /\ SpecTransport
  /\ \A c \in Requests :
        /\ WF_vars(requestSend(c))
        /\ WF_vars(checkConnection(c))
        /\ WF_vars(requestTimeout(c))
  /\ \A s \in Sockets : WF_vars(SocketEvent(s))
  /\ \A i \in 1..MaxSockets : WF_vars(reconnectTimerFires(i))

\* The preconfs feed under subscribe, unsubscribe, socket events and cleanup.
NextFanout ==
  \/ \E l \in Listeners : subscribeToPreconfs(l)
  \/ \E l \in Listeners : unsubscribe(l)
  \/ \E s \in FeedSockets : feed_onopen(s)
  \/ \E s \in FeedSockets : feed_closing(s)
  \/ \E s \in FeedSockets : feed_onclose(s)
  \/ \E s \in FeedSockets, m \in FeedMessages : feed_onmessage(s, m)
  \/ cleanup

SpecFanout == Init /\ [][NextFanout]_vars

\* The envelopes the two transports build for the calls they are given.
NextMapper ==
  \/ \E method \in Methods, params \in ParamLists :
        httpRequest(method, params)
  \/ \E method \in Methods, params \in ParamLists :
        wsRequestMessage(method, params)

SpecMapper == Init /\ [][NextMapper]_vars

\* decodeSolidityError applied to the payloads.
NextDecode == \E output \in Payloads : decode(output)

SpecDecode == Init /\ [][NextDecode]_vars

\* The gas price and cost of the writes that are executed.
NextGas ==
  \/ \E arg \in GasPriceArgs : writeContractParams(arg)
  \/ \E chainPrice \in ChainGasPrices, gas_used \in GasUsed :
        executeTransaction(chainPrice, gas_used)

SpecGas == Init /\ [][NextGas]_vars

Next ==
  \/ NextQueue \/ NextTransport \/ NextFanout \/ NextMapper \/ NextDecode
  \/ NextGas

Spec == Init /\ [][Next]_vars

\* ================================================================
\* Properties
\* ================================================================

LiveSockets == {s \in Sockets : readyState[s] \in {"CONNECTING", "OPEN"}}
ConstructedSockets == {s \in Sockets : readyState[s] # "NONE"}
PendingCallers(P) == {e.req : e \in P}

\* C1: executeTransaction is called in submission order: an entry submitted
\* earlier (a lower submission number) never starts after one submitted later.
C1_ExecutionOrderFIFO ==
  \A i, j \in 1..Len(executionOrder) :
     i < j => executionOrder[i] < executionOrder[j]

\* Three entries were executed, the later ones submitted while an earlier
\* one was executing, and one more is waiting.
C1_Witness ==
  /\ Len(executionOrder) >= 3
  /\ Len(transactionQueue) >= 1

\* C2: at most one drain worker runs, i.e. at most one executeTransaction
\* call is in flight, in every reachable state.
C2_AtMostOneWorker == Cardinality(executing) <= 1

\* C3: close() rejects every pending request, and from close() until the
\* next request() call the transport constructs no socket (not even from a
\* reconnect timer scheduled before close()).
C3_CloseStopsReconnect ==
  [][/\ TransportClose =>
          /\ pendingRequests' = {}
          /\ \A c \in PendingCallers(pendingRequests) :
                req'[c].outcome \notin {"pending", "resolved"}
     /\ (closedByCaller /\ closedByCaller') =>
          ConstructedSockets' = ConstructedSockets]_vars

\* C4: a close event with a code other than 1000 while reconnectAttempts < 5
\* schedules exactly one reconnect timer, with delay (new attempt number) *
\* 1000 ms; with reconnectAttempts at 5, or with code 1000, a close event
\* schedules none.
C4_OneReconnectPerClose ==
  [][\A s \in Sockets, code \in {NormalClosure} \cup AbnormalCodes :
       (readyState'[s] # readyState[s] /\ ws_onclose(s, code)) =>
         IF code # 1000 /\ reconnectAttempts < 5
         THEN /\ reconnectAttempts' = reconnectAttempts + 1
              /\ Len(reconnectTimers') = Len(reconnectTimers) + 1
              /\ \E i \in 1..Len(reconnectTimers') :
                    /\ reconnectTimers'[i] = reconnectAttempts' * 1000
                    /\ RemoveAt(reconnectTimers', i) = reconnectTimers
         ELSE /\ reconnectTimers' = reconnectTimers
              /\ reconnectAttempts' = reconnectAttempts]_vars

\* Two close events each scheduled a timer, with delays 1000 and 2000.
C4_Witness ==
  /\ Len(reconnectTimers) = 2
  /\ reconnectTimers[1] = 1000
  /\ reconnectTimers[2] = 2000

\* C5: when the 30 s timer of a sent, still unanswered request fires, the
\* request is rejected with the timeout error and its id leaves
\* pendingRequests; no entry for that id exists at any later time.
C5_TimeoutRejectsAndCleans ==
  /\ [](\A c \in Requests :
          req[c].outcome = "timeout" => ~MapHas(pendingRequests, req[c].id))
  /\ [][\A c \in Requests :
          (req[c].timeout = "armed" /\ req'[c].timeout = "fired"
             /\ req[c].outcome = "pending")
          => (req'[c].outcome = "timeout"
                /\ ~MapHas(pendingRequests', req[c].id))]_vars

\* A request timed out while another one is still pending.
C5_Witness ==
  \E c, d \in Requests :
     /\ req[c].outcome = "timeout"
     /\ req[d].outcome = "pending" /\ req[d].pc = "sent"

\* C6: at most one socket of the transport is CONNECTING or OPEN.
C6_OneLiveSocket == Cardinality(LiveSockets) <= 1

\* C7: a caller that found a connection attempt in flight uses the socket of
\* that attempt: it sends on that very socket, and it does not send at all
\* when that attempt failed.
C7_SameSocketForWaiters ==
  \A c \in Requests : req[c].sentOn # 0 => req[c].sentOn = req[c].joined

\* C8: a close event rejects every pending request and empties
\* pendingRequests; a request rejected that way is never sent again nor
\* resolved: nothing about it changes afterwards.
C8_CloseRejectsAllPending ==
  [][/\ (\E s \in Sockets : readyState[s] # "CLOSED"
                            /\ readyState'[s] = "CLOSED")
          => /\ pendingRequests' = {}
             /\ \A c \in PendingCallers(pendingRequests) :
                   /\ req[c].outcome = "pending"
                        => req'[c].outcome = "connectionClosed"
                   /\ req'[c].outcome \notin {"pending", "resolved"}
     /\ \A c \in Requests :
          req[c].outcome = "connectionClosed" => req'[c] = req[c]]_vars

\* After a close event rejected a request, the automatic reconnect built a
\* new socket and it opened.
C8_Witness ==
  \E c \in Requests, s \in Sockets :
     /\ req[c].outcome = "connectionClosed"
     /\ readyState[s] = "OPEN"
     /\ creator[s] = 0
     /\ ~closedByCaller

\* C9: request ids are handed out in strictly increasing order: no two
\* requests and no two entries of pendingRequests share an id.
C9_UniqueIncreasingIds ==
  /\ [](/\ \A e1, e2 \in pendingRequests : e1.id = e2.id => e1 = e2
        /\ \A c, d \in Requests :
              (c # d /\ req[c].id # 0) => req[c].id # req[d].id
        /\ \A c \in Requests : req[c].id < requestId)
  /\ [][\A c \in Requests :
          (req[c].id = 0 /\ req'[c].id # 0)
          => \A d \in Requests : req[d].id < req'[c].id]_vars

\* Two requests are outstanding at once.
C9_Witness == Cardinality(pendingRequests) >= 2

\* C10: a response with id X, X registered in pendingRequests, removes
\* exactly the entry registered under X and settles only that entry's
\* request, resolving it, or rejecting it when the response carries an error;
\* this holds in whatever order the responses arrive.
C10_ResponseMatchedById ==
  [][\A e \in pendingRequests, err \in BOOLEAN :
       (\E s \in Sockets :
           ws_onmessage(s, [kind |-> "response", id |-> e.id, error |-> err]))
       => /\ pendingRequests' = pendingRequests \ {e}
          /\ \A c \in Requests :
                IF c = e.req /\ req[c].outcome = "pending"
                THEN req'[c].outcome = IF err THEN "rpcError" ELSE "resolved"
                ELSE req'[c].outcome = req[c].outcome]_vars

\* The request sent second was answered first.
C10_Witness ==
  /\ req[1].outcome = "pending" /\ req[1].pc = "sent"
  /\ req[2].outcome \in {"resolved", "rpcError"}

QueuedEntries == {transactionQueue[i] : i \in 1..Len(transactionQueue)}

\* C11: when executeTransaction fails for an entry, that entry alone is
\* rejected: every other entry keeps its state, except that the entry at the
\* head of the queue is popped and executed next; and an entry is rejected
\* only by the failure of its own execution.
C11_FailureRejectsOnlyThatEntry ==
  [][\A e \in Tx :
       /\ (txOutcome[e] = "executing" /\ txOutcome'[e] = "rejected") =>
            /\ \A d \in Tx \ {e} :
                  \/ txOutcome'[d] = txOutcome[d]
                  \/ /\ Len(transactionQueue) > 0
                     /\ d = Head(transactionQueue)
                     /\ txOutcome'[d] = "executing"
            /\ Len(transactionQueue) > 0 =>
                  /\ Head(transactionQueue) \in executing'
                  /\ executionOrder' =
                        Append(executionOrder, Head(transactionQueue))
                  /\ transactionQueue' = Tail(transactionQueue)
       /\ (txOutcome[e] # "rejected" /\ txOutcome'[e] = "rejected") =>
            txOutcome[e] = "executing"]_vars

\* An entry failed and two entries queued behind it were executed in order
\* and resolved.
C11_Witness ==
  \E e \in Tx :
     /\ e + 2 \in Tx
     /\ txOutcome[e] = "rejected"
     /\ txOutcome[e + 1] = "resolved"
     /\ txOutcome[e + 2] = "resolved"
     /\ haltedFrames = {}

\* C12: cleanup() cancels every queued entry, a cancelled entry is never
\* executed, and the drain frame that was running when cleanup() was called
\* executes nothing more once its current call completes.
C12_CleanupHaltsWorker ==
  [][/\ cleanup => \A e \in QueuedEntries : txOutcome'[e] = "cancelled"
     /\ \A e \in Tx :
          txOutcome[e] = "cancelled" =>
             (txOutcome'[e] = "cancelled" /\ e \notin executing')
     /\ \A e \in haltedFrames :
          e \notin executing' => executing' \subseteq executing]_vars

LiveFeedSockets ==
  {s \in FeedSockets : preconfsReadyState[s] \in {"CONNECTING", "OPEN"}}

\* C13: the unsubscribe of the only listener closes the shared feed socket
\* and drops the reference to it; a subscribeToPreconfs that finds no socket
\* constructs a new one (open count + 1) and refers to it; and when a feed
\* socket opens, the subscribe message is sent on it.
C13_ResubscribeOpensAndSubscribes ==
  [][/\ \A l \in Listeners :
          (unsubscribe(l) /\ preconfsCallbacks = {l}
             /\ preconfsWebSocket # 0) =>
             /\ preconfsReadyState'[preconfsWebSocket]
                   \notin {"CONNECTING", "OPEN"}
             /\ preconfsWebSocket' = 0
     /\ \A l \in Listeners :
          (subscribeToPreconfs(l) /\ preconfsWebSocket = 0) =>
             /\ FeedOpenCount' = FeedOpenCount + 1
             /\ preconfsWebSocket' # 0
             /\ preconfsReadyState'[preconfsWebSocket'] = "CONNECTING"
     /\ \A s \in FeedSockets :
          (preconfsReadyState[s] = "CONNECTING"
             /\ preconfsReadyState'[s] = "OPEN") =>
             subscribeSent'[s] = subscribeSent[s] + 1]_vars

\* C14: at most one feed socket is connecting or open.
C14_OneLiveFeedSocket == Cardinality(LiveFeedSockets) <= 1

\* A step in which callbacks were called (every other step leaves both
\* records as they are or removes a listener).
CallbacksCalled ==
  /\ received' # received \/ callbackErrors' # callbackErrors
  /\ preconfsCallbacks' = preconfsCallbacks

\* C15: a push message with n logs calls the callback of every listener
\* registered when it is received n times, and no other callback.
C15_EveryLogToEveryListener ==
  [][CallbacksCalled =>
       \A m \in FeedMessages :
          (/\ m.logs > 0
           /\ m.throwing \subseteq preconfsCallbacks
           /\ \E s \in FeedSockets :
                 /\ preconfsReadyState[s] = "OPEN"
                 /\ subscribeSent[s] > 0
                 /\ feed_onmessage(s, m))
          => \A l \in Listeners :
                received'[l] =
                   received[l]
                     + (IF l \in preconfsCallbacks THEN m.logs ELSE 0)]_vars

\* A message with two logs was delivered to two listeners.
C15_Witness ==
  /\ Cardinality(preconfsCallbacks) >= 2
  /\ \A l \in preconfsCallbacks : received[l] >= 2

\* C16: when callbacks throw during the delivery of a push message, the
\* error is reported and every registered listener, the throwing ones
\* included, is still called once for each log of the message.
C16_ThrowingListenerIsolated ==
  [][CallbacksCalled =>
       \A m \in FeedMessages :
          (/\ m.throwing # {}
           /\ m.throwing \subseteq preconfsCallbacks
           /\ \E s \in FeedSockets :
                 /\ preconfsReadyState[s] = "OPEN"
                 /\ subscribeSent[s] > 0
                 /\ feed_onmessage(s, m))
          => /\ callbackErrors'
             /\ \A l \in preconfsCallbacks :
                   received'[l] = received[l] + m.logs]_vars

\* A callback threw and two listeners have received two events each.
C16_Witness ==
  /\ callbackErrors
  /\ Cardinality(preconfsCallbacks) >= 2
  /\ \A l \in preconfsCallbacks : received[l] = 2

Envelopes == {httpSent, wsSent} \ {NothingSent}

\* C17: the envelope either transport builds carries the parameters it was
\* given and the method name it was given, except that exactly
\* "eth_sendRawTransaction" is replaced by "fiber_sendRawTransaction".
C17_MethodMapping ==
  \A e \in Envelopes :
     /\ e.body.params = e.params
     /\ e.method = "eth_sendRawTransaction" =>
           e.body.method = "fiber_sendRawTransaction"
     /\ e.method # "eth_sendRawTransaction" => e.body.method = e.method

\* Both transports were handed eth_sendRawTransaction with a parameter, and
\* a method whose name only contains that name.
C17_Witness ==
  /\ httpSent.method = "eth_sendRawTransaction"
  /\ httpSent.params = <<"0x02f86b">>
  /\ httpSent.body.method = "fiber_sendRawTransaction"
  /\ wsSent.method = "eth_sendRawTransactionConditional"
  /\ wsSent.body.method = "eth_sendRawTransactionConditional"

DecodedBody == SliceFrom(decoded.output, 10)

\* The cases of C18 that do not depend on what follows the selector.
DecodeNullAndFallback ==
  /\ (decoded.output = <<>> \/ ~StartsWith(decoded.output, Prefix0x)) =>
        decoded.result = Null
  /\ (/\ StartsWith(decoded.output, Prefix0x)
      /\ ~StartsWith(decoded.output, ErrorSelector)
      /\ ~StartsWith(decoded.output, PanicSelector)) =>
        /\ decoded.result.kind = "Unknown error"
        /\ decoded.result.selector =
              SubSeq(decoded.output, 1, Min(10, Len(decoded.output)))
  /\ StartsWith(decoded.output, ErrorSelector) =>
        \A t \in Texts :
           DecodedBody = EncodeErrorString(t) => decoded.result = Message(t)
  /\ StartsWith(decoded.output, PanicSelector) =>
        \A c \in PanicCodes :
           DecodedBody = Word(c) => decoded.result = PanicWithCode(c)

\* C18 as stated: the selector alone selects the kind of result: a message
\* for 0x08c379a0, a string with the numeric code for 0x4e487b71, the
\* fallback with the selector otherwise, null without the 0x prefix.
C18_SelectedBySelector ==
  /\ DecodeNullAndFallback
  /\ StartsWith(decoded.output, ErrorSelector) =>
        decoded.result.kind = "message"
  /\ StartsWith(decoded.output, PanicSelector) =>
        decoded.result.kind = "Panic(code)"

\* C18 amended: as stated, except that 0x4e487b71 yields the string with
\* the numeric code only when a 32-byte word follows the selector, and the
\* plain string "Panic" when less follows.
C18_SelectedBySelectorAndBody ==
  /\ DecodeNullAndFallback
  /\ StartsWith(decoded.output, ErrorSelector) =>
        decoded.result.kind = "message"
  /\ StartsWith(decoded.output, PanicSelector) =>
        IF Len(DecodedBody) >= 64
        THEN decoded.result.kind = "Panic(code)"
        ELSE decoded.result = Panic

\* The payload that is the Panic selector and nothing else was decoded.
C18_Witness ==
  /\ decoded.output = PanicSelector
  /\ decoded.result = Panic

\* Messages that are not the response to a pending request: a push
\* notification, text that is not JSON, a response whose id is not pending.
Discarded(m) == m.kind # "response" \/ ~MapHas(pendingRequests, m.id)

\* C19: the receipt of a push notification, of a response whose id matches
\* no pending request or of text that is not JSON leaves pendingRequests,
\* the socket, the reconnect counter and timers as they are and settles no
\* request.
C19_UnmatchedMessageIgnored ==
  \A s \in Sockets, m \in Messages :
     (Discarded(m) /\ readyState[s] = "OPEN") =>
        ~ENABLED (/\ ws_onmessage(s, m)
                  /\ ~UNCHANGED <<pendingRequests, ws, readyState,
                                  reconnectAttempts, reconnectTimers, req>>)

\* Requests are pending on an open socket after a reconnect, and the socket
\* can receive a notification, a response with an id that is not pending
\* and text that is not JSON.
C19_Witness ==
  \E s \in Sockets :
     /\ ws = s
     /\ readyState[s] = "OPEN"
     /\ Cardinality(pendingRequests) = 1
     /\ \A m \in Messages :
          Discarded(m) =>
             ENABLED (ws_onmessage(s, m) /\ UNCHANGED vars)
     /\ \E m \in Messages : m.kind = "response" /\ Discarded(m)

\* C20: reconnectAttempts stays within 0..maxReconnectAttempts; the open of
\* a socket sets it to 0 and nothing else does; a request() made with the
\* budget used up and no socket constructs one; and when that connection
\* attempt fails, no reconnect is scheduled.
C20_ReconnectBudget ==
  [][/\ reconnectAttempts' \in 0..maxReconnectAttempts
     /\ \A s \in Sockets :
          (readyState[s] = "CONNECTING" /\ readyState'[s] = "OPEN") =>
             reconnectAttempts' = 0
     /\ (reconnectAttempts' = 0 /\ reconnectAttempts # 0) =>
           \E s \in Sockets :
              readyState[s] = "CONNECTING" /\ readyState'[s] = "OPEN"
     /\ \A c \in Requests :
          (/\ req[c].pc = "idle" /\ req'[c].pc # "idle"
           /\ reconnectAttempts = maxReconnectAttempts /\ ws = 0) =>
             (ws' # 0 /\ ws' \in unbudgeted')
     /\ \A s \in unbudgeted :
          readyState'[s] = "CLOSED" =>
             reconnectTimers' = reconnectTimers]_vars

\* C21 as stated: the price of an executed write is the price the caller
\* supplied when one was supplied, and otherwise a price queried from the
\* chain for the execution; weiSpent is gas_used times that price.
C21_SuppliedElseQueried ==
  writeResult # NoResult =>
     /\ writeResult.given =>
           (~writeResult.queried /\ writeResult.gasPrice = writeResult.value)
     /\ ~writeResult.given =>
           (writeResult.queried /\ writeResult.gasPrice \in ChainGasPrices)
     /\ writeResult.weiSpent = writeResult.gas_used * writeResult.gasPrice

\* C21 amended: the price of an executed write is the supplied price when
\* one was supplied and is not 0, the default 1 without a chain query when
\* none was supplied, and a price queried from the chain when 0 was
\* supplied; weiSpent is gas_used times that price.
C21_SuppliedElseDefault ==
  writeResult # NoResult =>
     /\ (writeResult.given /\ writeResult.value # 0) =>
           (~writeResult.queried /\ writeResult.gasPrice = writeResult.value)
     /\ ~writeResult.given =>
           (~writeResult.queried /\ writeResult.gasPrice = 1)
     /\ (writeResult.given /\ writeResult.value = 0) =>
           (writeResult.queried /\ writeResult.gasPrice \in ChainGasPrices)
     /\ writeResult.weiSpent = writeResult.gas_used * writeResult.gasPrice

\* A write without a gas price was executed at the default price.
C21_Witness ==
  /\ ~writeResult.given
  /\ writeResult.gas_used = 21000
  /\ writeResult.weiSpent = 21000

\* Number of fiber_subscribePreconfs messages sent on the feed sockets that
\* are not closed.
SubscribesSent(sent, rs) ==
  [s \in FeedSockets |-> IF rs[s] = "CLOSED" THEN 0 ELSE sent[s]]

\* C22: the close event (with or after the error event) of a feed socket,
\* handled while listeners are registered, clears the connected flag and
\* leaves the listener set as it is; and from then on, while listeners stay
\* registered and until subscribeToPreconfs is called, no feed socket is
\* constructed and no subscribe message is sent.
C22_LossWaitsForSubscribe ==
  [][/\ \A s \in FeedSockets :
          (/\ preconfsReadyState[s] # "CLOSED"
           /\ preconfsReadyState'[s] = "CLOSED"
           /\ preconfsCallbacks # {}) =>
             /\ ~preconfsConnected'
             /\ preconfsCallbacks' = preconfsCallbacks
             /\ feedLost'
     /\ feedLost' =>
          /\ FeedOpenCount' = FeedOpenCount
          /\ SubscribesSent(subscribeSent', preconfsReadyState')
                = SubscribesSent(subscribeSent, preconfsReadyState')]_vars

\* After the loss, with the listener still registered, another feed socket
\* has opened and nothing was sent on it.
C22_Witness ==
  /\ feedLost
  /\ \E s \in FeedSockets :
        preconfsReadyState[s] = "OPEN" /\ subscribeSent[s] = 0

Settled == {"resolved", "rejected", "cancelled"}

\* C23: every submitted entry is in exactly one place: waiting in the queue
\* (once), being executed, or settled; executeTransaction is called at most
\* once for an entry; the settled state of an entry never changes; an entry
\* is resolved or rejected only by the completion of its own execution and
\* cancelled only by cleanup() while it waits, so that a cancelled entry was
\* never executed and an executed entry is never cancelled.
C23_SettledExactlyOnce ==
  /\ [](/\ \A e \in Tx :
             /\ e > submitted <=> txOutcome[e] = "none"
             /\ e \in QueuedEntries <=> txOutcome[e] = "queued"
             /\ e \in executing <=> txOutcome[e] = "executing"
             /\ txOutcome[e] = "cancelled" =>
                   \A i \in 1..Len(executionOrder) : executionOrder[i] # e
             /\ txOutcome[e] \in {"executing", "resolved", "rejected"} =>
                   \E i \in 1..Len(executionOrder) : executionOrder[i] = e
         /\ \A i \in 1..Len(transactionQueue) :
               \A j \in 1..Len(transactionQueue) :
                  (transactionQueue[i] = transactionQueue[j]) => (i = j)
         /\ \A m \in 1..Len(executionOrder) :
               \A n \in 1..Len(executionOrder) :
                  (executionOrder[m] = executionOrder[n]) => (m = n))
  /\ [][\A e \in Tx :
          /\ txOutcome[e] \in Settled => txOutcome'[e] = txOutcome[e]
          /\ (txOutcome'[e] \in {"resolved", "rejected"}
                 /\ txOutcome[e] # txOutcome'[e]) =>
                (txOutcome[e] = "executing" /\ e \notin executing')
          /\ (txOutcome'[e] = "cancelled" /\ txOutcome[e] # "cancelled") =>
                (txOutcome[e] = "queued" /\ transactionQueue' = <<>>)]_vars

\* cleanup() ran while one entry was executing and another waited; the
\* first was settled by its execution, the second cancelled, and an entry
\* submitted afterwards was executed too.
C23_Witness ==
  \E e \in Tx :
     /\ e + 2 \in Tx
     /\ txOutcome[e] \in {"resolved", "rejected"}
     /\ txOutcome[e + 1] = "cancelled"
     /\ txOutcome[e + 2] = "resolved"

WorkerIdle ==
  /\ transactionQueue = <<>>
  /\ executing = {}
  /\ ~isProcessingQueue

\* C24: when every executeTransaction call completes, every submitted entry
\* is eventually resolved, rejected or cancelled; no entry waits in the
\* queue while no drain frame is running; and whenever the worker is busy
\* it eventually is idle again with an empty queue and the flag cleared.
C24_EverySubmissionSettles ==
  /\ \A e \in Tx : (txOutcome[e] \in {"queued", "executing"})
                      ~> (txOutcome[e] \in Settled)
  /\ [](transactionQueue # <<>> => executing # {})
  /\ [](isProcessingQueue => executing # {})
  /\ (~WorkerIdle) ~> WorkerIdle

\* Three entries or more were submitted, around a cleanup() that cancelled
\* one of them, all are settled and the worker is idle.
C24_Witness ==
  /\ submitted >= 3
  /\ WorkerIdle
  /\ \A e \in 1..submitted : txOutcome[e] \in Settled
  /\ \E e \in 1..submitted :
        /\ txOutcome[e] = "cancelled"
        /\ \E d \in 1..submitted : d > e /\ txOutcome[d] = "resolved"

\* C25: with timers and socket events fair, every request() call that is
\* pending is eventually resolved or rejected.
C25_EveryRequestSettles ==
  \A c \in Requests :
     (req[c].outcome = "pending") ~> (req[c].outcome # "pending")

\* C26: every entry of pendingRequests belongs to a request whose caller is
\* still unsettled; a request rejected with "WebSocket is not open" has no
\* entry.
C26_EntriesOnlyWhilePending ==
  \A e \in pendingRequests : req[e.req].outcome = "pending"

\* C27: a request is rejected with the connection-closed error only by the
\* close event of the socket it was sent on, and the close event of a socket
\* leaves the transport's reference to another socket as it is.
C27_StaleCloseIsHarmless ==
  [][\A s \in Sockets :
       (readyState[s] # "CLOSED" /\ readyState'[s] = "CLOSED") =>
          /\ \A c \in Requests :
                (/\ req[c].outcome = "pending"
                 /\ req'[c].outcome = "connectionClosed") =>
                   req[c].sentOn = s
          /\ (ws # 0 /\ ws # s) => ws' = ws]_vars

====
